---- MODULE Spec2Model ----
(***************************************************************************)
(* Model of the Remote-MCP HTTP bridge:                                    *)
(*   - HTTPAdapter (the HTTP receiver): handle, handleMethod, sendJSON,    *)
(*     sendError, setCORSHeaders, createHandler;                           *)
(*   - HTTPMCPClient (the stdio forwarder): constructor, sendRequest,      *)
(*     setupHandlers, start.                                               *)
(* JavaScript values are records tagged by k; JSON text is a sequence of   *)
(* tokens, produced by JSONStringify and consumed by JSONParse.            *)
(***************************************************************************)
EXTENDS Integers, Sequences, FiniteSets, TLC

\* ------------------------------------------------------------------------
\* Bounds of the model
\* ------------------------------------------------------------------------

\* the transport delivers the request body in chunks of 1..MaxChunkSize
\* tokens, or as one chunk
MaxChunkSize == 2

\* number of handler invocations the local frontend makes on one client
MaxCalls == 2

\* number of times start() is called on one client
MaxStarts == 2

\* ------------------------------------------------------------------------
\* JavaScript values
\* ------------------------------------------------------------------------

Undefined == [k |-> "undefined"]

JNull == [k |-> "null"]

JBool(b) == [k |-> "bool", b |-> b]

JNum(n) == [k |-> "num", n |-> n]

JStr(s) == [k |-> "str", s |-> s]

JArr(items) == [k |-> "arr", items |-> items]

\* an object: its own enumerable properties in insertion order
JObj(members) == [k |-> "obj", members |-> members]

\* a value JSON.stringify throws on (a circular structure, a BigInt)
Cyclic == [k |-> "cyclic"]

Member(key, val) == [key |-> key, val |-> val]

EmptyObj == JObj(<<>>)

\* own property lookup in a member list: the last definition of the key
RECURSIVE Lookup(_, _)
Lookup(members, key) ==
  IF members = <<>> THEN Undefined
  ELSE LET last == members[Len(members)]
       IN  IF last.key = key THEN last.val
           ELSE Lookup(SubSeq(members, 1, Len(members) - 1), key)

HasOwn(v, key) ==
  /\ v.k = "obj"
  /\ \E i \in 1..Len(v.members) : v.members[i].key = key

\* v.key for a v that is neither null nor undefined
Get(v, key) == IF v.k = "obj" THEN Lookup(v.members, key) ELSE Undefined

\* v.key throws a TypeError when v is null or undefined
ThrowsOnGet(v) == v.k \in {"null", "undefined"}

\* !v
Falsy(v) ==
  \/ v.k \in {"undefined", "null"}
  \/ v.k = "bool" /\ ~v.b
  \/ v.k = "num" /\ v.n = 0
  \/ v.k = "str" /\ v.s = ""

\* v ?? null
OrNull(v) == IF v.k \in {"undefined", "null"} THEN JNull ELSE v

\* `${v}` for undefined, null, scalars, the empty array and plain objects
TemplateString(v) ==
  CASE v.k = "str" -> v.s
    [] v.k \in {"undefined", "null"} -> v.k
    [] v.k = "num" -> ToString(v.n)
    [] v.k = "bool" -> IF v.b THEN "true" ELSE "false"
    [] v.k = "arr" /\ v.items = <<>> -> ""
    [] OTHER -> "[object Object]"

\* ------------------------------------------------------------------------
\* JSON text: a sequence of tokens
\* ------------------------------------------------------------------------

LBrace == [t |-> "{"]

RBrace == [t |-> "}"]

LBracket == [t |-> "["]

RBracket == [t |-> "]"]

Colon == [t |-> ":"]

Comma == [t |-> ","]

\* a scalar literal: null, true, false, a number or a string
Lit(v) == [t |-> "lit", v |-> v]

\* text that is no JSON token at all
Garbage == [t |-> "garbage"]

\* JSON.stringify throws on v
RECURSIVE StringifyThrows(_)
StringifyThrows(v) ==
  CASE v.k = "cyclic" -> TRUE
    [] v.k = "arr" -> \E i \in 1..Len(v.items) : StringifyThrows(v.items[i])
    [] v.k = "obj" -> \E i \in 1..Len(v.members) : StringifyThrows(v.members[i].val)
    [] OTHER -> FALSE

\* JSON.stringify(v) for a v that is not undefined and on which it does not
\* throw: members whose value is undefined are left out, undefined array
\* elements become null
RECURSIVE JSONStringify(_), StringifyMembers(_, _), StringifyItems(_, _)
JSONStringify(v) ==
  CASE v.k = "obj" -> <<LBrace>> \o StringifyMembers(v.members, TRUE) \o <<RBrace>>
    [] v.k = "arr" -> <<LBracket>> \o StringifyItems(v.items, TRUE) \o <<RBracket>>
    [] OTHER -> <<Lit(v)>>

StringifyMembers(members, first) ==
  IF members = <<>> THEN <<>>
  ELSE LET m == Head(members)
       IN  IF m.val.k = "undefined"
           THEN StringifyMembers(Tail(members), first)
           ELSE (IF first THEN <<>> ELSE <<Comma>>)
                  \o <<Lit(JStr(m.key)), Colon>> \o JSONStringify(m.val)
                  \o StringifyMembers(Tail(members), FALSE)

StringifyItems(items, first) ==
  IF items = <<>> THEN <<>>
  ELSE LET e == Head(items)
       IN  (IF first THEN <<>> ELSE <<Comma>>)
             \o (IF e.k = "undefined" THEN <<Lit(JNull)>> ELSE JSONStringify(e))
             \o StringifyItems(Tail(items), FALSE)

\* define or redefine a property, keeping the position of a redefined one
SetMember(members, key, val) ==
  IF \E i \in 1..Len(members) : members[i].key = key
  THEN [i \in 1..Len(members) |->
          IF members[i].key = key THEN Member(key, val) ELSE members[i]]
  ELSE Append(members, Member(key, val))

ParseFail == [ok |-> FALSE, val |-> Undefined, rest |-> <<>>]

ParseOk(val, rest) == [ok |-> TRUE, val |-> val, rest |-> rest]

\* recursive descent over the tokens: one value, then the remaining tokens
RECURSIVE ParseValue(_), ParseMembers(_, _), ParseItems(_, _)
ParseValue(ts) ==
  IF ts = <<>> THEN ParseFail
  ELSE LET h == Head(ts)
       IN  CASE h.t = "lit" -> ParseOk(h.v, Tail(ts))
             [] h.t = "{" ->
                  IF Len(ts) >= 2 /\ ts[2].t = "}"
                  THEN ParseOk(EmptyObj, SubSeq(ts, 3, Len(ts)))
                  ELSE ParseMembers(Tail(ts), <<>>)
             [] h.t = "[" ->
                  IF Len(ts) >= 2 /\ ts[2].t = "]"
                  THEN ParseOk(JArr(<<>>), SubSeq(ts, 3, Len(ts)))
                  ELSE ParseItems(Tail(ts), <<>>)
             [] OTHER -> ParseFail

ParseMembers(ts, acc) ==
  IF Len(ts) < 3 THEN ParseFail
  ELSE IF ts[1].t # "lit" \/ ts[2].t # ":" THEN ParseFail
  ELSE IF ts[1].v.k # "str" THEN ParseFail
  ELSE LET r == ParseValue(SubSeq(ts, 3, Len(ts)))
       IN  IF ~r.ok \/ r.rest = <<>> THEN ParseFail
           ELSE LET acc2 == SetMember(acc, ts[1].v.s, r.val)
                    n == Head(r.rest)
                IN  CASE n.t = "}" -> ParseOk(JObj(acc2), Tail(r.rest))
                      [] n.t = "," -> ParseMembers(Tail(r.rest), acc2)
                      [] OTHER -> ParseFail

ParseItems(ts, acc) ==
  LET r == ParseValue(ts)
  IN  IF ~r.ok \/ r.rest = <<>> THEN ParseFail
      ELSE LET acc2 == Append(acc, r.val)
               n == Head(r.rest)
           IN  CASE n.t = "]" -> ParseOk(JArr(acc2), Tail(r.rest))
                 [] n.t = "," -> ParseItems(Tail(r.rest), acc2)
                 [] OTHER -> ParseFail

\* a parser that stops at the end of the first value and ignores what follows
JSONParseLenient(ts) ==
  LET r == ParseValue(ts)
  IN  IF r.ok THEN ParseOk(r.val, <<>>) ELSE ParseFail

\* JSON.parse(text): ok is FALSE where it throws a SyntaxError
JSONParse(ts) ==
  LET r == ParseValue(ts)
  IN  IF r.ok /\ r.rest = <<>> THEN r ELSE ParseFail

\* ------------------------------------------------------------------------
\* State
\* ------------------------------------------------------------------------

VARIABLES
  path,            \* HTTPAdapter.path
  cors,            \* HTTPAdapter.cors
  req,             \* the IncomingMessage: url, method, the body chunks to come
  listeners,       \* the events of req that handle has subscribed to
  delivered,       \* number of body chunks the transport has emitted
  body,            \* handle's local `body`
  jsonrpcRequest,  \* handle's local `jsonrpcRequest`
  res,             \* the ServerResponse
  pc,              \* where the call of handle stands
  returned,        \* what handle returned: "none", "true" or "false"
  routerLog,       \* the router operations invoked, in order
  settled          \* how the awaited router operation settled

adapterVars ==
  <<path, cors, req, listeners, delivered, body, jsonrpcRequest, res, pc,
    returned, routerLog, settled>>

VARIABLES
  options,         \* HTTPMCPClient.options, as the constructor merged them
  requestId,       \* HTTPMCPClient.requestId
  handlers,        \* the server's request handlers: method -> forwarded method
  registrations,   \* number of setRequestHandler calls
  transports,      \* the StdioServerTransport objects created, each with the
                   \* methods that had a handler when it was attached
  connects,        \* number of server.connect calls
  started,         \* number of handler invocations begun so far
  calls,           \* the handler invocations in flight, and those that
                   \* finished since the last one began
  errorCallbacks,  \* the invocations of options.onError, in order
  notifications    \* the logging notifications the server was asked to send

clientVars ==
  <<options, requestId, handlers, registrations, transports, connects, started,
    calls, errorCallbacks, notifications>>

\* ------------------------------------------------------------------------
\* HTTPAdapter: the response object
\* ------------------------------------------------------------------------

\* plain (non-JSON) text of a response body
Text(s) == [t |-> "text", s |-> s]

\* a response nothing has touched yet; statusCode 0 stands for "not assigned"
FreshResponse ==
  [statusCode |-> 0, headers |-> {}, endCalls |-> 0, wroteBody |-> FALSE,
   body |-> <<>>]

\* res.setHeader(name, value)
SetHeader(r, name, value) ==
  [r EXCEPT !.headers = {h \in @ : h[1] # name} \cup {<<name, value>>}]

\* res.end(): the first call finishes the response, without a body
EndEmpty(r) == [r EXCEPT !.endCalls = @ + 1]

\* res.end(text): the first call writes the body and finishes the response
EndWith(r, text) ==
  IF r.endCalls = 0
  THEN [r EXCEPT !.endCalls = 1, !.wroteBody = TRUE, !.body = text]
  ELSE [r EXCEPT !.endCalls = @ + 1]

CORSHeaders ==
  { <<"Access-Control-Allow-Origin", "*">>,
    <<"Access-Control-Allow-Methods", "POST, OPTIONS">>,
    <<"Access-Control-Allow-Headers", "Content-Type">> }

\* CORS headers set whether or not CORS is enabled
setCORSHeadersAlways(r, enabled) ==
  SetHeader(SetHeader(SetHeader(r,
    "Access-Control-Allow-Origin", "*"),
    "Access-Control-Allow-Methods", "POST, OPTIONS"),
    "Access-Control-Allow-Headers", "Content-Type")

setCORSHeaders(r, enabled) ==
  IF enabled
  THEN SetHeader(SetHeader(SetHeader(r,
         "Access-Control-Allow-Origin", "*"),
         "Access-Control-Allow-Methods", "POST, OPTIONS"),
         "Access-Control-Allow-Headers", "Content-Type")
  ELSE r

\* sendJSON(res, statusCode, data): the response afterwards, and whether
\* JSON.stringify threw (after the status and the header were set, before end)
sendJSON(r, statusCode, data) ==
  LET r1 == SetHeader([r EXCEPT !.statusCode = statusCode],
                      "Content-Type", "application/json")
  IN  IF StringifyThrows(data)
      THEN [res |-> r1, threw |-> TRUE]
      ELSE [res |-> EndWith(r1, JSONStringify(data)), threw |-> FALSE]

ErrorObject(code, message, data) ==
  JObj(<<Member("code", JNum(code)), Member("message", JStr(message)),
         Member("data", data)>>)

\* an error sent with an HTTP error status instead of 200
sendErrorHttpStatus(r, id, code, message, data) ==
  sendJSON(r, 400,
           JObj(<<Member("jsonrpc", JStr("2.0")), Member("id", id),
                  Member("error", ErrorObject(code, message, data))>>))

sendError(r, id, code, message, data) ==
  sendJSON(r, 200,
           JObj(<<Member("jsonrpc", JStr("2.0")), Member("id", id),
                  Member("error", ErrorObject(code, message, data))>>))

SuccessResponse(id, result) ==
  JObj(<<Member("jsonrpc", JStr("2.0")), Member("id", id),
         Member("result", result)>>)

\* ------------------------------------------------------------------------
\* HTTPAdapter.handleMethod
\* ------------------------------------------------------------------------

KnownMethods ==
  { "initialize", "tools/list", "tools/call", "resources/list",
    "resources/read", "resources/subscribe", "resources/unsubscribe",
    "prompts/list", "prompts/get" }

\* new Error(message)
Error(message) == [isError |-> TRUE, message |-> message]

\* a thrown value that is no Error object: throw 'message'
NonError(message) == [isError |-> FALSE, message |-> message]

\* the TypeError of reading property `prop` of null or undefined
PropertyTypeError(v, prop) ==
  Error("Cannot read properties of " \o v.k \o " (reading '" \o prop \o "')")

Invoke(op, args) == [kind |-> "call", op |-> op, args |-> args]

Throw(failure) == [kind |-> "throw", failure |-> failure]

\* handleMethod up to its await: the router operation it invokes and the
\* arguments it passes, or the failure it throws before invoking any
handleMethod(method, params) ==
  CASE method = JStr("initialize") -> Invoke("initialize", <<params>>)
    [] method = JStr("tools/list") -> Invoke("listTools", <<>>)
    [] method = JStr("tools/call") ->
         IF ThrowsOnGet(params) THEN Throw(PropertyTypeError(params, "name"))
         ELSE Invoke("callTool", <<Get(params, "name"), Get(params, "arguments")>>)
    [] method = JStr("resources/list") -> Invoke("listResources", <<>>)
    [] method = JStr("resources/read") ->
         IF ThrowsOnGet(params) THEN Throw(PropertyTypeError(params, "uri"))
         ELSE Invoke("readResource", <<Get(params, "uri")>>)
    [] method = JStr("resources/subscribe") ->
         IF ThrowsOnGet(params) THEN Throw(PropertyTypeError(params, "uri"))
         ELSE Invoke("subscribeToResource", <<Get(params, "uri")>>)
    [] method = JStr("resources/unsubscribe") ->
         IF ThrowsOnGet(params) THEN Throw(PropertyTypeError(params, "uri"))
         ELSE Invoke("unsubscribeFromResource", <<Get(params, "uri")>>)
    [] method = JStr("prompts/list") -> Invoke("listPrompts", <<>>)
    [] method = JStr("prompts/get") ->
         IF ThrowsOnGet(params) THEN Throw(PropertyTypeError(params, "name"))
         ELSE Invoke("getPrompt", <<Get(params, "name"), Get(params, "arguments")>>)
    [] OTHER -> Throw(Error("Method not found: " \o TemplateString(method)))

\* handleMethod after its await: what it returns for the value the router
\* operation resolved to
handleMethodResult(method, value) ==
  CASE method = JStr("initialize") -> value
    [] method = JStr("tools/list") -> JObj(<<Member("tools", value)>>)
    [] method = JStr("tools/call") -> value
    [] method = JStr("resources/list") -> JObj(<<Member("resources", value)>>)
    [] method = JStr("resources/read") -> JObj(<<Member("contents", value)>>)
    [] method = JStr("resources/subscribe") -> EmptyObj
    [] method = JStr("resources/unsubscribe") -> EmptyObj
    [] method = JStr("prompts/list") -> JObj(<<Member("prompts", value)>>)
    [] method = JStr("prompts/get") -> JObj(<<Member("messages", value)>>)

\* the message of whatever was thrown, Error object or not
errorMessageOfAnything(failure) == failure.message

\* errorMessage of handle's catch clause
errorMessage(failure) ==
  IF failure.isError THEN failure.message ELSE "Unknown error"

\* the TypeError JSON.stringify throws
StringifyError == Error("Converting circular structure to JSON")

\* ------------------------------------------------------------------------
\* The router: what its operations resolve to or reject with
\* ------------------------------------------------------------------------

\* the calculator tool's result
ToolResult ==
  JObj(<<Member("content",
           JArr(<<JObj(<<Member("type", JStr("text")),
                         Member("text", JStr("3"))>>)>>))>>)

Listing == JArr(<<JObj(<<Member("name", JStr("calculator"))>>)>>)

RouterReturns(op) ==
  CASE op \in {"initialize", "callTool"} -> {ToolResult, Undefined, Cyclic}
    [] op \in {"subscribeToResource", "unsubscribeFromResource"} -> {Undefined}
    [] OTHER -> {JArr(<<>>), Listing}

RouterFailures == {Error("Division by zero"), NonError("boom")}

RouterOutcomes(op) ==
  {[kind |-> "return", value |-> v] : v \in RouterReturns(op)}
    \cup {[kind |-> "throw", failure |-> f] : f \in RouterFailures}

NotSettled == [kind |-> "none"]

\* ------------------------------------------------------------------------
\* Requests the HTTP server hands to the adapter
\* ------------------------------------------------------------------------

Envelope(jsonrpc, id, method, params) ==
  JObj(<<Member("jsonrpc", jsonrpc), Member("id", id),
         Member("method", method), Member("params", params)>>)

ParamsOf(method) ==
  CASE method = "initialize" -> JObj(<<Member("protocolVersion", JStr("1"))>>)
    [] method \in {"tools/call", "prompts/get"} ->
         JObj(<<Member("name", JStr("calculator")), Member("arguments", EmptyObj)>>)
    [] method \in {"resources/read", "resources/subscribe", "resources/unsubscribe"} ->
         JObj(<<Member("uri", JStr("file:///a"))>>)
    [] OTHER -> EmptyObj

V2 == JStr("2.0")

\* JSON values of request bodies: valid envelopes, envelopes that fail the
\* validation, and JSON values that are no envelope at all
RequestValues ==
  {Envelope(V2, JNum(1), JStr(m), ParamsOf(m)) : m \in KnownMethods}
    \cup {Envelope(V2, id, JStr("tools/list"), Undefined) :
            id \in {Undefined, JNull, JStr("a")}}
    \cup {Envelope(V2, JNum(1), JStr(m), p) :
            m \in {"tools/call", "resources/read"}, p \in {Undefined, JNull, JNum(5)}}
    \cup {Envelope(V2, id, m, EmptyObj) :
            id \in {Undefined, JNum(1)}, m \in {JStr("foo/bar"), JNum(7)}}
    \cup {Envelope(v, id, m, Undefined) :
            v \in {JStr("1.0"), Undefined}, id \in {Undefined, JNum(2)},
            m \in {JStr("tools/list"), Undefined}}
    \cup {Envelope(V2, id, m, Undefined) :
            id \in {Undefined, JNull, JStr("a")}, m \in {Undefined, JStr(""), JNull}}
    \cup {JNull, JNum(5), JStr("2.0"), JBool(TRUE), JArr(<<>>), JArr(<<V2>>), EmptyObj}

WellFormedBodies == {JSONStringify(v) : v \in RequestValues}

\* bodies that are not JSON: nothing, arbitrary text, and cut or extended
\* JSON documents
MalformedBodies ==
  {<<>>, <<Garbage, Garbage>>, <<LBrace, Lit(JStr("jsonrpc")), RBrace>>,
   <<LBracket, Lit(JNum(1)), Comma, RBracket>>, <<Lit(JNull), Lit(JNull)>>}
    \cup {SubSeq(d, 1, Len(d) - 1) : d \in {JSONStringify(Envelope(V2, JNum(1), JStr(m), ParamsOf(m))) : m \in {"tools/list", "tools/call"}}}

RequestBodies == WellFormedBodies \cup MalformedBodies

\* a body as the transport delivers it: chunks of n tokens
RECURSIVE Chunked(_, _)
Chunked(text, n) ==
  IF text = <<>> THEN <<>>
  ELSE IF Len(text) <= n THEN <<text>>
  ELSE <<SubSeq(text, 1, n)>> \o Chunked(SubSeq(text, n + 1, Len(text)), n)

ChunkSizes(text) == (1..MaxChunkSize) \cup ({Len(text)} \ {0})

RECURSIVE Concat(_)
Concat(chunks) ==
  IF chunks = <<>> THEN <<>> ELSE Head(chunks) \o Concat(Tail(chunks))

Urls == {"/mcp/http", "/rpc", "/"}

HttpMethods == {"OPTIONS", "POST", "GET"}

NoRequest == [url |-> "", method |-> "", chunks |-> <<>>]

\* ------------------------------------------------------------------------
\* HTTPAdapter: constructor
\* ------------------------------------------------------------------------

PathOptions == {Undefined, JStr(""), JStr("/rpc")}

CorsOptions == {Undefined, JBool(TRUE), JBool(FALSE)}

\* options.path || '/mcp/http'
AdapterPath(option) == IF Falsy(option) THEN "/mcp/http" ELSE option.s

\* options.cors ?? true
AdapterCors(option) == IF OrNull(option) = JNull THEN TRUE ELSE option.b

\* new HTTPAdapter({router, path, cors}), no request received yet
AdapterConstructed(pathOption, corsOption) ==
  /\ path = AdapterPath(pathOption)
  /\ cors = AdapterCors(corsOption)
  /\ req = NoRequest
  /\ listeners = {}
  /\ delivered = 0
  /\ body = <<>>
  /\ jsonrpcRequest = Undefined
  /\ res = FreshResponse
  /\ pc = "idle"
  /\ returned = "none"
  /\ routerLog = <<>>
  /\ settled = NotSettled

\* ------------------------------------------------------------------------
\* HTTPAdapter.handle
\* ------------------------------------------------------------------------

\* the url compared with the default path instead of the configured one
pathMismatchDefault(url, configured) == url # "/mcp/http"

\* the validation with && in place of ||
isInvalidRequestBoth(request) ==
  Get(request, "jsonrpc") # JStr("2.0") /\ Falsy(Get(request, "method"))

\* req.url !== this.path
pathMismatch(url, configured) == url # configured

\* jsonrpcRequest.jsonrpc !== '2.0' || !jsonrpcRequest.method
isInvalidRequest(request) ==
  Get(request, "jsonrpc") # JStr("2.0") \/ Falsy(Get(request, "method"))

\* a send outside the try block, followed by `return true`; a throw of the
\* send rejects handle
Finish(s) ==
  /\ res' = s.res
  /\ pc' = IF s.threw THEN "rejected" ELSE "returned"
  /\ returned' = IF s.threw THEN "none" ELSE "true"

\* the catch clause of handle, followed by `return true`
CatchAndSend(r, request, failure) ==
  Finish(sendError(r, OrNull(Get(request, "id")), -32603, "Internal error",
                   JStr(errorMessage(failure))))

\* handle from its entry to its first await: the path check, the CORS
\* headers, OPTIONS, the methods other than POST, the subscription to the body
HandleStart(url, method, chunks) ==
  /\ pc = "idle"
  /\ req' = [url |-> url, method |-> method, chunks |-> chunks]
  /\ IF pathMismatch(url, path)
     THEN /\ pc' = "returned"
          /\ returned' = "false"
          /\ UNCHANGED <<res, listeners>>
     ELSE LET r1 == setCORSHeaders(res, cors)
          IN  IF method = "OPTIONS"
              THEN /\ res' = EndEmpty([r1 EXCEPT !.statusCode = 204])
                   /\ pc' = "returned"
                   /\ returned' = "true"
                   /\ UNCHANGED listeners
              ELSE IF method # "POST"
              THEN /\ Finish(sendError(r1, JNull, -32600,
                                       "Invalid Request: Only POST is supported",
                                       Undefined))
                   /\ UNCHANGED listeners
              ELSE /\ res' = r1
                   /\ listeners' = {"data", "end"}
                   /\ pc' = "reading"
                   /\ UNCHANGED returned
  /\ UNCHANGED <<path, cors, delivered, body, jsonrpcRequest, routerLog, settled>>

\* the transport emits the next chunk: body += chunk.toString()
ReqData ==
  /\ "data" \in listeners
  /\ delivered < Len(req.chunks)
  /\ body' = body \o req.chunks[delivered + 1]
  /\ delivered' = delivered + 1
  /\ UNCHANGED <<path, cors, req, listeners, jsonrpcRequest, res, pc, returned,
                 routerLog, settled>>

\* the transport signals end-of-body: the awaited promise resolves
ReqEnd ==
  /\ pc = "reading"
  /\ "end" \in listeners
  /\ delivered = Len(req.chunks)
  /\ pc' = "resumed"
  /\ UNCHANGED <<path, cors, req, listeners, delivered, body, jsonrpcRequest, res,
                 returned, routerLog, settled>>

\* handle from the end of the body to the router operation it awaits: the
\* parse, the validation and handleMethod up to its await
HandleBody ==
  /\ pc = "resumed"
  /\ LET parsed == JSONParse(body)
         request == parsed.val
     IN  IF ~parsed.ok
         THEN /\ Finish(sendError(res, JNull, -32700, "Parse error", Undefined))
              /\ UNCHANGED <<jsonrpcRequest, routerLog>>
         ELSE /\ jsonrpcRequest' = request
              /\ IF ThrowsOnGet(request)
                 THEN /\ pc' = "rejected"
                      /\ UNCHANGED <<res, returned, routerLog>>
                 ELSE IF isInvalidRequest(request)
                 THEN /\ Finish(sendError(res, OrNull(Get(request, "id")), -32600,
                                          "Invalid Request", Undefined))
                      /\ UNCHANGED routerLog
                 ELSE LET step == handleMethod(Get(request, "method"),
                                               Get(request, "params"))
                      IN  IF step.kind = "call"
                          THEN /\ routerLog' = Append(routerLog,
                                                      [op |-> step.op, args |-> step.args])
                               /\ pc' = "awaiting"
                               /\ UNCHANGED <<res, returned>>
                          ELSE /\ CatchAndSend(res, request, step.failure)
                               /\ UNCHANGED routerLog
  /\ UNCHANGED <<path, cors, req, listeners, delivered, body, settled>>

\* the awaited router operation settles: handle sends the result, or the
\* error of its catch clause, and returns true
RouterSettle ==
  /\ pc = "awaiting"
  /\ \E outcome \in RouterOutcomes(routerLog[Len(routerLog)].op) :
       /\ settled' = outcome
       /\ IF outcome.kind = "return"
          THEN LET result == handleMethodResult(Get(jsonrpcRequest, "method"),
                                                outcome.value)
                   s == sendJSON(res, 200,
                                 SuccessResponse(OrNull(Get(jsonrpcRequest, "id")),
                                                 result))
               IN  IF s.threw
                   THEN CatchAndSend(s.res, jsonrpcRequest, StringifyError)
                   ELSE Finish(s)
          ELSE CatchAndSend(res, jsonrpcRequest, outcome.failure)
  /\ UNCHANGED <<path, cors, req, listeners, delivered, body, jsonrpcRequest,
                 routerLog>>

\* createHandler: handle reported the request unhandled
CreateHandlerNotFound ==
  /\ pc = "returned"
  /\ returned = "false"
  /\ res' = EndWith([res EXCEPT !.statusCode = 404], <<Text("Not Found")>>)
  /\ pc' = "closed"
  /\ UNCHANGED <<path, cors, req, listeners, delivered, body, jsonrpcRequest,
                 returned, routerLog, settled>>

\* ------------------------------------------------------------------------
\* JSON-RPC envelopes as they read on the wire
\* ------------------------------------------------------------------------

ErrorEnvelope(id, code, message) ==
  JObj(<<Member("jsonrpc", JStr("2.0")), Member("id", id),
         Member("error", JObj(<<Member("code", JNum(code)),
                                Member("message", JStr(message))>>))>>)

ErrorEnvelopeWithData(id, code, message, data) ==
  JObj(<<Member("jsonrpc", JStr("2.0")), Member("id", id),
         Member("error", JObj(<<Member("code", JNum(code)),
                                Member("message", JStr(message)),
                                Member("data", JStr(data))>>))>>)

SuccessEnvelope(id, result) ==
  JObj(<<Member("jsonrpc", JStr("2.0")), Member("id", id),
         Member("result", result)>>)

\* ------------------------------------------------------------------------
\* HTTPMCPClient: constructor
\* ------------------------------------------------------------------------

\* the options argument: its headers (none when the key is absent), and its
\* onError: no such key, the key with the value undefined, or a callback of
\* the caller
ClientOptions ==
  { [headers |-> <<>>, onError |-> "absent"],
    [headers |-> <<Member("authorization", JStr("Bearer t"))>>,
     onError |-> "custom"],
    [headers |-> <<Member("Content-Type", JStr("text/plain")),
                   Member("x-api-key", JStr("k"))>>,
     onError |-> "absent"],
    [headers |-> <<>>, onError |-> "undefined"] }

RemoteUrl == "http://localhost:9512"

\* { onError: <default>, ...options }: an own key of options, even one whose
\* value is undefined, replaces the default
mergedOnError(option) == IF option = "absent" THEN "default" ELSE option

\* new HTTPMCPClient({remoteUrl, headers, onError})
ClientConstructedAt(remoteUrl, headerOption, onErrorOption) ==
  /\ options = [remoteUrl |-> remoteUrl, headers |-> headerOption,
                onError |-> mergedOnError(onErrorOption)]
  /\ requestId = 0
  /\ handlers = <<>>
  /\ registrations = 0
  /\ transports = <<>>
  /\ connects = 0
  /\ started = 0
  /\ calls = {}
  /\ errorCallbacks = <<>>
  /\ notifications = <<>>

\* the client of index.ts when REMOTE_MCP_URL is not set
ClientConstructed(headerOption, onErrorOption) ==
  ClientConstructedAt(RemoteUrl, headerOption, onErrorOption)

\* ------------------------------------------------------------------------
\* HTTPMCPClient.sendRequest
\* ------------------------------------------------------------------------

\* the request object of sendRequest
buildRequest(id, method, params) ==
  JObj(<<Member("jsonrpc", JStr("2.0")), Member("id", JNum(id)),
         Member("method", JStr(method)), Member("params", params)>>)

\* { 'Content-Type': 'application/json', ...this.options.headers }
RECURSIVE spread(_, _)
spread(target, source) ==
  IF source = <<>> THEN target
  ELSE spread(SetMember(target, Head(source).key, Head(source).val), Tail(source))

requestHeaders(configured) ==
  spread(<<Member("Content-Type", JStr("application/json"))>>, configured)

\* response.ok
responseOk(status) == status \in 200..299

Return(value) == [kind |-> "return", value |-> value]

AwaitJson == [kind |-> "json"]

\* sendRequest without the check of response.ok
afterFetchAnyStatus(fetched) ==
  IF fetched.kind = "reject" THEN Throw(fetched.failure) ELSE AwaitJson

\* sendRequest from the settlement of fetch to its next await
afterFetch(fetched) ==
  IF fetched.kind = "reject" THEN Throw(fetched.failure)
  ELSE IF ~responseOk(fetched.status)
  THEN Throw(Error("HTTP error! status: " \o ToString(fetched.status)))
  ELSE AwaitJson

\* sendRequest returning the whole response object instead of its result
afterJsonWholeResponse(text) ==
  LET parsed == JSONParse(text)
  IN  IF ~parsed.ok THEN Throw(Error("Unexpected token in JSON"))
      ELSE IF ~Falsy(Get(parsed.val, "error")) THEN Throw(Error("JSON-RPC error"))
      ELSE Return(parsed.val)

\* sendRequest without the check of jsonResponse.error
afterJsonErrorIgnored(text) ==
  LET parsed == JSONParse(text)
  IN  IF ~parsed.ok THEN Throw(Error("Unexpected token in JSON"))
      ELSE IF ThrowsOnGet(parsed.val)
      THEN Throw(PropertyTypeError(parsed.val, "error"))
      ELSE Return(Get(parsed.val, "result"))

\* sendRequest from the settlement of response.json() to its end
afterJson(text) ==
  LET parsed == JSONParse(text)
      jsonResponse == parsed.val
  IN  IF ~parsed.ok THEN Throw(Error("Unexpected token in JSON"))
      ELSE IF ThrowsOnGet(jsonResponse)
      THEN Throw(PropertyTypeError(jsonResponse, "error"))
      ELSE IF ~Falsy(Get(jsonResponse, "error"))
      THEN Throw(Error("JSON-RPC error "
                         \o TemplateString(Get(Get(jsonResponse, "error"), "code"))
                         \o ": "
                         \o TemplateString(Get(Get(jsonResponse, "error"), "message"))))
      ELSE Return(Get(jsonResponse, "result"))

\* ------------------------------------------------------------------------
\* HTTPMCPClient.setupHandlers, start
\* ------------------------------------------------------------------------

\* the method name each registered handler passes to sendRequest
forwardedMethod(method) ==
  CASE method = "initialize" -> "initialize"
    [] method = "tools/list" -> "tools/list"
    [] method = "tools/call" -> "tools/call"
    [] method = "resources/list" -> "resources/list"
    [] method = "resources/read" -> "resources/read"
    [] method = "resources/subscribe" -> "resources/subscribe"
    [] method = "resources/unsubscribe" -> "resources/unsubscribe"
    [] method = "prompts/list" -> "prompts/list"
    [] method = "prompts/get" -> "prompts/get"

\* the methods of the nine request schemas
SchemaMethods == KnownMethods

\* setupHandlers(): nine calls of setRequestHandler, each replacing the
\* handler of its method
setupHandlers(server) ==
  [server EXCEPT !.handlers = [m \in SchemaMethods |-> forwardedMethod(m)],
                 !.registrations = @ + Cardinality(SchemaMethods)]

\* new StdioServerTransport(); server.connect(transport): from here on the
\* transport delivers inbound requests to the server
connect(server) ==
  [server EXCEPT !.transports = Append(@, [handled |-> DOMAIN server.handlers]),
                 !.connects = @ + 1]

\* the transport attached before the handlers are registered
startConnectingFirst(server) == setupHandlers(connect(server))

\* start(): this.setupHandlers(), then the transport
start(server) == connect(setupHandlers(server))

ClientStart ==
  /\ connects < MaxStarts
  /\ LET server == start([handlers |-> handlers, registrations |-> registrations,
                          transports |-> transports, connects |-> connects])
     IN  /\ handlers' = server.handlers
         /\ registrations' = server.registrations
         /\ transports' = server.transports
         /\ connects' = server.connects
  /\ UNCHANGED <<options, requestId, started, calls, errorCallbacks, notifications>>
  /\ UNCHANGED adapterVars

Outstanding == {c \in calls : c.pc \in {"fetch", "json"}}

\* an identifier that is never advanced past 1
nextRequestIdStuck(current) == IF current = 0 THEN 1 ELSE current

\* ++this.requestId
nextRequestId(current) == current + 1

\* the server delivers an inbound request to the handler of its method; the
\* handler runs sendRequest up to the await of fetch.  The invocations that
\* have finished are answered and leave the state.
BeginCall(method, params) ==
  /\ connects > 0
  /\ method \in DOMAIN handlers
  /\ started < MaxCalls
  /\ LET id == nextRequestId(requestId)
         request == buildRequest(id, handlers[method], params)
         kept == {c.n : c \in Outstanding}
     IN  /\ requestId' = id
         /\ started' = started + 1
         /\ calls' = Outstanding \cup
              {[n |-> started + 1, method |-> method, params |-> params,
                id |-> id, pc |-> "fetch",
                sent |-> [url |-> options.remoteUrl, method |-> "POST",
                          headers |-> requestHeaders(options.headers),
                          body |-> JSONStringify(request)],
                fetched |-> [kind |-> "none"], result |-> Undefined,
                failure |-> Error("")]}
         /\ errorCallbacks' = SelectSeq(errorCallbacks, LAMBDA e : e.call \in kept)
         /\ notifications' = SelectSeq(notifications, LAMBDA e : e.call \in kept)
  /\ UNCHANGED <<options, handlers, registrations, transports, connects>>
  /\ UNCHANGED adapterVars

\* an inbound request delivered while no invocation is in flight
ClientCall(method, params) ==
  /\ Outstanding = {}
  /\ BeginCall(method, params)

\* the catch clause of a handler: this.options.onError?.(request.method,
\* error), then the error is thrown again.  The default callback asks the
\* server to send a logging notification.
HandlerCatch(c, fetched, failure) ==
  /\ calls' = (calls \ {c}) \cup
       {[c EXCEPT !.pc = "failed", !.failure = failure, !.fetched = fetched]}
  /\ errorCallbacks' =
       IF options.onError = "undefined" THEN errorCallbacks
       ELSE Append(errorCallbacks,
                   [call |-> c.n, method |-> c.method, message |-> failure.message])
  /\ notifications' =
       IF options.onError = "default"
       THEN Append(notifications,
                   [call |-> c.n, level |-> "error",
                    data |-> c.method \o ": " \o failure.message])
       ELSE notifications

\* fetch settles: it rejects, or resolves to a response
ClientFetchSettle(c, fetched) ==
  /\ c \in calls
  /\ c.pc = "fetch"
  /\ LET step == afterFetch(fetched)
     IN  IF step.kind = "throw"
         THEN HandlerCatch(c, fetched, step.failure)
         ELSE /\ calls' = (calls \ {c}) \cup
                   {[c EXCEPT !.pc = "json", !.fetched = fetched]}
              /\ UNCHANGED <<errorCallbacks, notifications>>
  /\ UNCHANGED <<options, requestId, handlers, registrations, transports, connects,
                 started>>
  /\ UNCHANGED adapterVars

\* response.json() settles: the handler returns the result or fails
ClientJsonSettle(c) ==
  /\ c \in calls
  /\ c.pc = "json"
  /\ LET step == afterJson(c.fetched.text)
     IN  IF step.kind = "throw"
         THEN HandlerCatch(c, c.fetched, step.failure)
         ELSE /\ calls' = (calls \ {c}) \cup
                   {[c EXCEPT !.pc = "returned", !.result = step.value]}
              /\ UNCHANGED <<errorCallbacks, notifications>>
  /\ UNCHANGED <<options, requestId, handlers, registrations, transports, connects,
                 started>>
  /\ UNCHANGED adapterVars

\* ------------------------------------------------------------------------
\* The remote endpoint: how fetch can settle
\* ------------------------------------------------------------------------

RemoteResults == {ToolResult, JNull}

NetworkFailure == [kind |-> "reject", failure |-> Error("fetch failed")]

HttpResponse(status, text) == [kind |-> "response", status |-> status, text |-> text]

FetchOutcomes(id) ==
  {NetworkFailure}
    \cup {HttpResponse(200, JSONStringify(SuccessEnvelope(JNum(id), x))) :
            x \in RemoteResults}
    \cup {HttpResponse(200, JSONStringify(
            ErrorEnvelopeWithData(JNum(id), -32603, "Internal error", "boom"))),
          HttpResponse(200, JSONStringify(SuccessEnvelope(JNum(id), Undefined))),
          HttpResponse(200, <<Garbage>>),
          HttpResponse(404, JSONStringify(SuccessEnvelope(JNum(id), ToolResult)))}

\* ------------------------------------------------------------------------
\* Specifications
\* ------------------------------------------------------------------------

vars == <<adapterVars, clientVars>>

\* the receiver: one request through createHandler's handler, for every
\* configuration of the adapter
Init ==
  /\ \E pathOption \in PathOptions, corsOption \in CorsOptions :
       AdapterConstructed(pathOption, corsOption)
  /\ ClientConstructed(<<>>, "absent")

Next ==
  \/ \E url \in Urls, method \in HttpMethods, text \in RequestBodies :
       \E n \in ChunkSizes(text) :
         HandleStart(url, method, Chunked(text, n)) /\ UNCHANGED clientVars
  \/ ReqData /\ UNCHANGED clientVars
  \/ ReqEnd /\ UNCHANGED clientVars
  \/ HandleBody /\ UNCHANGED clientVars
  \/ RouterSettle /\ UNCHANGED clientVars
  \/ CreateHandlerNotFound /\ UNCHANGED clientVars

Spec == Init /\ [][Next]_vars

\* the forwarder: one client, for every way of constructing it, serving one
\* inbound request at a time against a remote endpoint that answers in any way
ClientInit ==
  /\ AdapterConstructed(Undefined, Undefined)
  /\ \E option \in ClientOptions :
       ClientConstructed(option.headers, option.onError)

ClientNext ==
  \/ ClientStart
  \/ \E method \in SchemaMethods : ClientCall(method, ParamsOf(method))
  \/ \E c \in Outstanding :
       \E fetched \in FetchOutcomes(c.id) : ClientFetchSettle(c, fetched)
  \/ \E c \in calls : ClientJsonSettle(c)

ClientSpec == ClientInit /\ [][ClientNext]_vars

\* the forwarder under concurrent load: inbound requests are delivered
\* whatever the number of invocations in flight, and the awaits of the
\* invocations settle in any order
InterleavedMethods == {"tools/list", "tools/call"}

InterleavedInit ==
  /\ AdapterConstructed(Undefined, Undefined)
  /\ ClientConstructed(<<>>, "absent")

InterleavedNext ==
  \/ ClientStart
  \/ \E method \in InterleavedMethods : BeginCall(method, ParamsOf(method))
  \/ \E c \in Outstanding :
       \E fetched \in FetchOutcomes(c.id) : ClientFetchSettle(c, fetched)
  \/ \E c \in calls : ClientJsonSettle(c)

InterleavedSpec == InterleavedInit /\ [][InterleavedNext]_vars

\* the forwarder composed with the receiver: the requests the client posts
\* are the requests the adapter's server receives, and the responses the
\* adapter writes are the responses fetch resolves to
BridgeUrl == "http://localhost:9513/mcp/http"

\* the path of a remote URL, as the server reads it in req.url
UrlPath(url) == IF url = BridgeUrl THEN "/mcp/http" ELSE "/"

\* the call whose request the adapter is serving
Serving(c) == pc # "idle" /\ Concat(req.chunks) = c.sent.body

\* the server receives the request of a call and invokes the handler
BridgeDeliver(c, n) ==
  /\ c \in calls
  /\ c.pc = "fetch"
  /\ HandleStart(UrlPath(c.sent.url), c.sent.method, Chunked(c.sent.body, n))
  /\ UNCHANGED clientVars

\* the response the adapter ended reaches the client: fetch resolves
BridgeRespond(c) ==
  /\ Serving(c)
  /\ pc \in {"returned", "closed"}
  /\ res.endCalls > 0
  /\ ClientFetchSettle(c, HttpResponse(res.statusCode, res.body))

\* the exchange is over: the server invokes the handler of createHandler
\* with a new request and a new response next time
BridgeRecycle ==
  /\ pc \in {"returned", "closed"}
  /\ res.endCalls > 0
  /\ \A c \in calls : Serving(c) => c.pc \in {"returned", "failed"}
  /\ req' = NoRequest
  /\ listeners' = {}
  /\ delivered' = 0
  /\ body' = <<>>
  /\ jsonrpcRequest' = Undefined
  /\ res' = FreshResponse
  /\ pc' = "idle"
  /\ returned' = "none"
  /\ routerLog' = <<>>
  /\ settled' = NotSettled
  /\ UNCHANGED <<path, cors>>
  /\ UNCHANGED clientVars

BridgeInit ==
  /\ AdapterConstructed(Undefined, Undefined)
  /\ \E remoteUrl \in {RemoteUrl, BridgeUrl} :
       ClientConstructedAt(remoteUrl, <<>>, "absent")

BridgeNext ==
  \/ ClientStart
  \/ \E method \in SchemaMethods : ClientCall(method, ParamsOf(method))
  \/ \E c \in calls : \E n \in ChunkSizes(c.sent.body) : BridgeDeliver(c, n)
  \/ ReqData /\ UNCHANGED clientVars
  \/ ReqEnd /\ UNCHANGED clientVars
  \/ HandleBody /\ UNCHANGED clientVars
  \/ RouterSettle /\ UNCHANGED clientVars
  \/ CreateHandlerNotFound /\ UNCHANGED clientVars
  \/ \E c \in calls : BridgeRespond(c)
  \/ \E c \in calls : ClientJsonSettle(c)
  \/ BridgeRecycle

BridgeSpec == BridgeInit /\ [][BridgeNext]_vars

\* ------------------------------------------------------------------------
\* Vocabulary of the properties
\* ------------------------------------------------------------------------

\* the text the caller sent, and the JSON value it denotes
RequestText == Concat(req.chunks)

RequestValue == JSONParse(RequestText).val

OnPath == pc # "idle" /\ req.url = path

PostOnPath == OnPath /\ req.method = "POST"

\* handle is past the parse and the validation of the body
PastBody == pc \notin {"idle", "reading", "resumed"}

\* the call of handle is over
Completed == pc \in {"returned", "rejected", "closed"}

RespondedTrue == pc = "returned" /\ returned = "true" /\ res.endCalls = 1

\* the response body as a JSON-RPC peer reads it
ResponseValue == JSONParse(res.body).val

\* the id a response must carry: the supplied one, null when none was
SuppliedId(v) == IF HasOwn(v, "id") THEN Get(v, "id") ELSE JNull

\* a valid envelope: version "2.0" and a non-empty method name
ValidEnvelope(v) ==
  /\ v.k = "obj"
  /\ Get(v, "jsonrpc") = JStr("2.0")
  /\ Get(v, "method").k = "str"
  /\ Get(v, "method") # JStr("")

\* the Method Descriptor table: method name -> router operation
TableOperation(method) ==
  CASE method = "initialize" -> "initialize"
    [] method = "tools/list" -> "listTools"
    [] method = "tools/call" -> "callTool"
    [] method = "resources/list" -> "listResources"
    [] method = "resources/read" -> "readResource"
    [] method = "resources/subscribe" -> "subscribeToResource"
    [] method = "resources/unsubscribe" -> "unsubscribeFromResource"
    [] method = "prompts/list" -> "listPrompts"
    [] method = "prompts/get" -> "getPrompt"

\* the Method Descriptor table: method name -> result envelope
TableResult(method, value) ==
  CASE method \in {"initialize", "tools/call"} -> value
    [] method = "tools/list" -> JObj(<<Member("tools", value)>>)
    [] method = "resources/list" -> JObj(<<Member("resources", value)>>)
    [] method = "resources/read" -> JObj(<<Member("contents", value)>>)
    [] method \in {"resources/subscribe", "resources/unsubscribe"} -> EmptyObj
    [] method = "prompts/list" -> JObj(<<Member("prompts", value)>>)
    [] method = "prompts/get" -> JObj(<<Member("messages", value)>>)

\* ------------------------------------------------------------------------
\* Properties of HTTPAdapter
\* ------------------------------------------------------------------------

\* C1: every response body written for a non-OPTIONS request on the
\* configured path is, as serialized, a JSON-RPC response object holding
\* exactly one of the members `result` and `error`.
C1_ExactlyOneOfResultAndError ==
  (OnPath /\ req.method # "OPTIONS" /\ res.wroteBody) =>
    LET parsed == JSONParse(res.body)
    IN  /\ parsed.ok
        /\ parsed.val.k = "obj"
        /\ Get(parsed.val, "jsonrpc") = JStr("2.0")
        /\ HasOwn(parsed.val, "result") # HasOwn(parsed.val, "error")

\* C2: a POST on the configured path whose body is JSON, with `jsonrpc` not
\* "2.0" or `method` missing or empty, is answered with status 200 and the
\* error envelope -32600 "Invalid Request" carrying the supplied id (null
\* when none was supplied), and handle returns true.
C2_InvalidRequestAnswered ==
  ( /\ PostOnPath
    /\ PastBody
    /\ RequestText \in WellFormedBodies
    /\ \/ Get(RequestValue, "jsonrpc") # JStr("2.0")
       \/ ~HasOwn(RequestValue, "method")
       \/ Get(RequestValue, "method") = JStr("") ) =>
    /\ RespondedTrue
    /\ res.statusCode = 200
    /\ ResponseValue = ErrorEnvelope(SuppliedId(RequestValue), -32600, "Invalid Request")

\* C3: a POST on the configured path whose body is not well-formed JSON is
\* answered with status 200 and exactly the envelope
\* {jsonrpc:"2.0", id:null, error:{code:-32700, message:"Parse error"}},
\* and handle returns true.
C3_ParseErrorAnswered ==
  (PostOnPath /\ PastBody /\ RequestText \in MalformedBodies) =>
    /\ RespondedTrue
    /\ res.statusCode = 200
    /\ res.body = JSONStringify(ErrorEnvelope(JNull, -32700, "Parse error"))
    /\ ResponseValue = ErrorEnvelope(JNull, -32700, "Parse error")

C3_Witness ==
  /\ PostOnPath
  /\ RequestText = <<Garbage, Garbage>>
  /\ RespondedTrue
  /\ Get(Get(ResponseValue, "error"), "code") = JNum(-32700)

\* C4: for each of the nine known methods, when the router operation
\* succeeds, the response is the success envelope with the request's id
\* (null if absent) and the operation's return value wrapped per the Method
\* Descriptor table, and exactly the one mapped router operation was invoked,
\* exactly once.
C4_SuccessEnvelopePerTable ==
  ( /\ PostOnPath
    /\ Completed
    /\ RequestText \in WellFormedBodies
    /\ ValidEnvelope(RequestValue)
    /\ Get(RequestValue, "method").s \in KnownMethods
    /\ settled.kind = "return" ) =>
    /\ RespondedTrue
    /\ res.statusCode = 200
    /\ ResponseValue =
         SuccessEnvelope(SuppliedId(RequestValue),
                         TableResult(Get(RequestValue, "method").s, settled.value))
    /\ Len(routerLog) = 1
    /\ routerLog[1].op = TableOperation(Get(RequestValue, "method").s)

\* the valid envelopes whose dispatch fails: the method is unknown, or the
\* router operation raised a failure
DispatchFailed ==
  /\ PostOnPath
  /\ Completed
  /\ RequestText \in WellFormedBodies
  /\ ValidEnvelope(RequestValue)
  /\ \/ Get(RequestValue, "method").s \notin KnownMethods
     \/ settled.kind = "throw"

UnknownMethod == Get(RequestValue, "method").s \notin KnownMethods

\* C5 as stated: a failed dispatch of a valid envelope is answered with
\* status 200 and the error envelope -32603 "Internal error" whose `data` is
\* the failure's message ("Method not found: <method>" for an unknown
\* method).
C5_DataIsFailureMessage ==
  DispatchFailed =>
    /\ RespondedTrue
    /\ res.statusCode = 200
    /\ ResponseValue =
         ErrorEnvelopeWithData(
           SuppliedId(RequestValue), -32603, "Internal error",
           IF UnknownMethod
           THEN "Method not found: " \o Get(RequestValue, "method").s
           ELSE settled.failure.message)

\* C5 amended: as C5, with `data` the failure's message when the failure is
\* an Error object and the fixed text "Unknown error" when it is any other
\* thrown value.
C5_DataIsErrorMessageOrUnknown ==
  DispatchFailed =>
    /\ RespondedTrue
    /\ res.statusCode = 200
    /\ ResponseValue =
         ErrorEnvelopeWithData(
           SuppliedId(RequestValue), -32603, "Internal error",
           IF UnknownMethod
           THEN "Method not found: " \o Get(RequestValue, "method").s
           ELSE IF settled.failure.isError THEN settled.failure.message
           ELSE "Unknown error")

C5_Witness ==
  /\ DispatchFailed
  /\ settled.kind = "throw"
  /\ ~settled.failure.isError
  /\ Get(Get(ResponseValue, "error"), "data") = JStr("Unknown error")

\* C6: a router operation is invoked only after the path matched, the method
\* is POST, and the whole body was read, parsed and validated; none is
\* invoked for a request answered with -32700 or -32600, for OPTIONS or for
\* a path mismatch.
C6_RouterOnlyAfterValidation ==
  /\ routerLog # <<>> =>
       /\ PostOnPath
       /\ PastBody
       /\ delivered = Len(req.chunks)
       /\ body = RequestText
       /\ RequestText \in WellFormedBodies
       /\ ValidEnvelope(RequestValue)
  /\ ( /\ res.wroteBody
       /\ Get(Get(ResponseValue, "error"), "code") \in {JNum(-32700), JNum(-32600)} ) =>
       routerLog = <<>>
  /\ (pc # "idle" /\ (req.method # "POST" \/ req.url # path)) => routerLog = <<>>

C6_Witness ==
  /\ Len(routerLog) = 1
  /\ routerLog[1].op = "callTool"
  /\ pc = "awaiting"

\* C7: when the request's path differs from the configured path, handle
\* returns false having set no status code and no header, written no body,
\* not ended the response, not subscribed to the request body and invoked no
\* router operation.
C7_PathMismatchUntouched ==
  (pc # "idle" /\ req.url # path) =>
    /\ returned = "false"
    /\ pc \in {"returned", "closed"}
    /\ pc = "returned" => res = FreshResponse
    /\ listeners = {}
    /\ delivered = 0
    /\ body = <<>>
    /\ routerLog = <<>>

C7_Witness ==
  /\ pc = "returned"
  /\ req.url = "/mcp/http"
  /\ path = "/rpc"
  /\ returned = "false"

\* C8: an OPTIONS request on the configured path gets status 204 with an
\* empty body and handle returns true; the three CORS headers are on the
\* response when CORS is enabled and absent when it is disabled.
C8_OptionsPreflight ==
  (OnPath /\ req.method = "OPTIONS") =>
    /\ RespondedTrue
    /\ res.statusCode = 204
    /\ ~res.wroteBody
    /\ res.body = <<>>
    /\ cors => CORSHeaders \subseteq res.headers
    /\ ~cors => \A h \in res.headers : h[1] \notin {c[1] : c \in CORSHeaders}
    /\ listeners = {}

C8_Witness ==
  /\ OnPath
  /\ req.method = "OPTIONS"
  /\ ~cors
  /\ res.statusCode = 204

\* C9: a request on the configured path whose method is neither OPTIONS nor
\* POST is answered, without subscribing to or reading the body, with status
\* 200 and the error envelope id null, -32600, "Invalid Request: Only POST
\* is supported", and handle returns true.
C9_OnlyPostSupported ==
  (OnPath /\ req.method \notin {"OPTIONS", "POST"}) =>
    /\ RespondedTrue
    /\ res.statusCode = 200
    /\ ResponseValue =
         ErrorEnvelope(JNull, -32600, "Invalid Request: Only POST is supported")
    /\ listeners = {}
    /\ delivered = 0
    /\ body = <<>>

C9_Witness ==
  /\ OnPath
  /\ req.method = "GET"
  /\ req.chunks # <<>>
  /\ RespondedTrue

\* ------------------------------------------------------------------------
\* Properties of HTTPMCPClient
\* ------------------------------------------------------------------------

\* the remote answered the call with a success HTTP status and a JSON-RPC
\* response carrying `result` and no `error`
AnsweredWithResult(c) ==
  /\ c.fetched.kind = "response"
  /\ c.fetched.status \in 200..299
  /\ c.fetched.text \in
       {JSONStringify(SuccessEnvelope(JNum(c.id), x)) : x \in RemoteResults}

\* the `result` member of the response the remote sent
RemoteResult(c) == Get(JSONParse(c.fetched.text).val, "result")

Finished(c) == c.pc \in {"returned", "failed"}

\* C10: for each of the nine methods, when the remote answers with a
\* success HTTP status and a JSON-RPC response carrying `result: X` and no
\* `error`, the local handler returns X unchanged and the error callback is
\* not invoked.
C10_ResultReturnedUnchanged ==
  \A c \in calls :
    (Finished(c) /\ AnsweredWithResult(c)) =>
      /\ c.pc = "returned"
      /\ c.result = RemoteResult(c)
      /\ c.result \in RemoteResults
      /\ \A i \in DOMAIN errorCallbacks : errorCallbacks[i].call # c.n
      /\ \A i \in DOMAIN notifications : notifications[i].call # c.n

C10_Witness ==
  \E c \in calls :
    /\ c.method = "prompts/get"
    /\ c.n = 2
    /\ AnsweredWithResult(c)
    /\ c.pc = "returned"
    /\ c.result = ToolResult

\* the remote answered the call with a success HTTP status and a JSON-RPC
\* response carrying an `error` object
AnsweredWithError(c) ==
  /\ c.fetched.kind = "response"
  /\ c.fetched.status \in 200..299
  /\ JSONParse(c.fetched.text).ok
  /\ Get(JSONParse(c.fetched.text).val, "error").k = "obj"

\* the `error` member of the response the remote sent
RemoteError(c) == Get(JSONParse(c.fetched.text).val, "error")

\* the invocations of the error callback made for call c
CallbacksOf(c) == {i \in DOMAIN errorCallbacks : errorCallbacks[i].call = c.n}

TransportFailed(c) == c.fetched.kind = "reject"

\* fetch resolved to a response whose status is no success status
NonSuccessStatus(c) ==
  c.fetched.kind = "response" /\ c.fetched.status \notin 200..299

\* the statuses a response can carry
HttpStatuses == 100..599

\* C12 as stated: when fetch rejects or the response has a non-success
\* status, the call fails with an error describing the HTTP status, the body
\* is not read as a JSON-RPC response and no result is returned.
C12_FailsWithHttpStatusError ==
  \A c \in calls :
    (TransportFailed(c) \/ NonSuccessStatus(c)) =>
      /\ c.pc = "failed"
      /\ c.result = Undefined
      /\ c.failure.message \in
           {"HTTP error! status: " \o ToString(status) : status \in HttpStatuses}

\* C12 amended: a response with a non-success status fails the call with the
\* error "HTTP error! status: <status>"; a rejected fetch fails the call with
\* the rejection of fetch itself, which describes no HTTP status.  In both
\* cases the body is never read (the call never reaches response.json()) and
\* no result is returned.
C12_FailsWithStatusOrTransportError ==
  \A c \in calls :
    /\ NonSuccessStatus(c) =>
         /\ c.pc = "failed"
         /\ c.result = Undefined
         /\ c.failure = Error("HTTP error! status: " \o ToString(c.fetched.status))
    /\ TransportFailed(c) =>
         /\ c.pc = "failed"
         /\ c.result = Undefined
         /\ c.failure = c.fetched.failure

C12_Witness ==
  \E c \in calls :
    /\ NonSuccessStatus(c)
    /\ JSONParse(c.fetched.text).ok
    /\ HasOwn(JSONParse(c.fetched.text).val, "result")
    /\ c.pc = "failed"
    /\ c.failure.message = "HTTP error! status: 404"

\* the forwarded call fails: fetch rejected, the status is no success status,
\* the body is no JSON, or the response carries an `error`
ForwardFails(c) ==
  \/ TransportFailed(c)
  \/ NonSuccessStatus(c)
  \/ c.fetched.kind = "response" /\ ~JSONParse(c.fetched.text).ok
  \/ AnsweredWithError(c)

\* C13: for every failing forwarded call (transport failure, non-success
\* status, unparseable body, remote `error`), whatever options the client was
\* constructed with, the error callback is invoked exactly once, with the
\* failure that is then propagated, and the call ends in that failure, never
\* in a returned result.
C13_CallbackOnceThenOriginalFailure ==
  \A c \in calls :
    (Finished(c) /\ ForwardFails(c)) =>
      /\ c.pc = "failed"
      /\ c.result = Undefined
      /\ Cardinality(CallbacksOf(c)) = 1
      /\ \A i \in CallbacksOf(c) :
           /\ errorCallbacks[i].method = c.method
           /\ errorCallbacks[i].message = c.failure.message

\* C14: across any interleaving of outstanding handler invocations, the
\* k-th forwarded request built carries the identifier k (the first 1, each
\* next one more), in its record and in the body sent; a call that failed
\* has consumed its identifier, and no two requests share one.
C14_DistinctIncreasingIds ==
  /\ requestId = started
  /\ \A c \in calls :
       /\ c.id = c.n
       /\ Get(JSONParse(c.sent.body).val, "id") = JNum(c.n)
  /\ \A c1, c2 \in calls : c1 # c2 => c1.id # c2.id

\* two invocations in flight together, the later one settled first
C14_Witness ==
  \E c1, c2 \in calls :
    /\ c1.id = 1
    /\ c1.pc = "fetch"
    /\ c2.id = 2
    /\ c2.pc = "failed"
    /\ Get(JSONParse(c2.sent.body).val, "id") = JNum(2)

\* C15: for every configured header mapping, one holding a `Content-Type`
\* key included, the headers of every request sent hold each configured
\* header other than `Content-Type` with its configured value, and
\* `Content-Type` with the value `application/json`.
C15_ContentTypeNeverOverridden ==
  \A c \in calls :
    /\ \A i \in DOMAIN options.headers :
         options.headers[i].key # "Content-Type" =>
           Lookup(c.sent.headers, options.headers[i].key) = options.headers[i].val
    /\ Lookup(c.sent.headers, "Content-Type") = JStr("application/json")

\* C16: when the forwarder posts to the receiver's path, for each of the nine
\* methods the receiver dispatches the method name on the wire to the router
\* operation of the table (never "Method not found"), its response carries
\* the id the forwarder sent, the local handler returns exactly the
\* receiver's result when the router operation succeeds, and fails with an
\* error embedding code -32603 when the router operation fails.
C16_ForwarderReceiverRoundTrip ==
  \A c \in calls :
    (Serving(c) /\ OnPath) =>
      /\ PastBody =>
           /\ Get(jsonrpcRequest, "method") = JStr(c.method)
           /\ Get(jsonrpcRequest, "id") = JNum(c.id)
           /\ Len(routerLog) = 1
           /\ routerLog[1].op = TableOperation(c.method)
      /\ res.wroteBody =>
           /\ Get(ResponseValue, "id") = JNum(c.id)
           /\ Get(Get(ResponseValue, "error"), "data") \notin
                {JStr("Method not found: " \o m) : m \in KnownMethods}
      /\ (Finished(c) /\ settled.kind = "return") =>
           /\ c.pc = "returned"
           /\ c.result = TableResult(c.method, settled.value)
      /\ (Finished(c) /\ settled.kind = "throw") =>
           /\ c.pc = "failed"
           /\ c.failure.message = "JSON-RPC error -32603: Internal error"

\* C17: start() is idempotent per instance: a call after the first leaves one
\* handler per method (the re-registration replaces), creates and attaches
\* no further transport, and does not change the request identifier counter.
C17_StartIdempotent ==
  [][(registrations' > registrations /\ connects > 0) =>
       /\ handlers' = handlers
       /\ DOMAIN handlers' = SchemaMethods
       /\ transports' = transports
       /\ connects' = connects
       /\ requestId' = requestId]_vars

\* C19: every transport is attached when all nine methods have a handler, so
\* whenever inbound calls can be delivered every method has its forwarding
\* handler, and every call delivered found one.
C19_HandlersBeforeTransport ==
  /\ \A i \in DOMAIN transports : transports[i].handled = SchemaMethods
  /\ connects > 0 =>
       /\ DOMAIN handlers = SchemaMethods
       /\ \A m \in SchemaMethods : handlers[m] = m
  /\ \A c \in calls : c.method \in DOMAIN handlers /\ Len(transports) > 0

C19_Witness ==
  /\ Len(transports) = 1
  /\ transports[1].handled = SchemaMethods
  /\ \E c \in calls : c.method = "prompts/list" /\ c.pc = "fetch"

\* C18: for a POST on the configured path, handle writes no response and
\* invokes no router operation before the transport signals end-of-body;
\* past that signal the text it parses is the concatenation of all chunks in
\* arrival order; without the signal handle does not move on; and after it
\* handle ends only by having written a response and returned true.
C18_BodyReadToCompletion ==
  PostOnPath =>
    /\ pc = "reading" =>
         /\ res.endCalls = 0
         /\ ~res.wroteBody
         /\ res.statusCode = 0
         /\ returned = "none"
         /\ routerLog = <<>>
         /\ body = Concat(SubSeq(req.chunks, 1, delivered))
    /\ pc # "reading" =>
         /\ delivered = Len(req.chunks)
         /\ body = RequestText
    /\ Completed =>
         /\ pc = "returned"
         /\ returned = "true"
         /\ res.endCalls > 0

\* C20: for every request on the configured path, in every branch of handle
\* (OPTIONS, non-POST, parse error, invalid envelope, dispatch success,
\* dispatch failure), the response is ended exactly once and handle then
\* returns true: it never rejects, never ends the response twice and never
\* returns without having ended it.
C20_EndedExactlyOnce ==
  OnPath =>
    /\ res.endCalls <= 1
    /\ pc # "rejected"
    /\ returned # "false"
    /\ returned = "true" <=> res.endCalls = 1
    /\ Completed => RespondedTrue

====
